---- MODULE Spec2Model ----
(***************************************************************************)
(* State machines of the stateful units of the component library:          *)
(*   - DataTable        (sort state, header clicks, sorted row projection) *)
(*   - useSyncedSliderInput, driven by Slider and NumberInput              *)
(*   - usePanelCollapse                                                    *)
(*   - useTheme         (mode, stored mode, platform colour scheme)        *)
(* The units share no state.  Each has its own specification, in which the *)
(* other units sit in their default state; Spec is the composition of all  *)
(* four.  A handler action is one React event: the handler                 *)
(* body, the state updates it queues and the re-render that follows, so    *)
(* the next handler always closes over the state the previous one left.    *)
(***************************************************************************)
EXTENDS Integers, Sequences, FiniteSets, TLC

VARIABLES
    \* ---- DataTable ----
    columns,          \* props.columns : sequence of ColumnDef
    data,             \* props.data    : sequence of rows
    sortColumn,       \* useState<string | null>
    sortDirection,    \* useState<SortDirection>
    sortedData,       \* the array the last render computed and the body shows
    sortRun,          \* history: the run of requests on one column that
                      \* began in the unsorted state
    lastClick,        \* history: the header last clicked, and the sort
                      \* state it was clicked in
    \* ---- useSyncedSliderInput ----
    min, max, step,   \* options
    controlledValue,  \* options.value (<<>> when undefined)
    hasOnChange,      \* whether options.onChange is supplied
    internalValue,    \* useState(initialValue)
    ret,              \* the object useMemo caches and the hook returns
    retDeps,          \* the dependency values ret was computed for
    sliderOp,         \* history: the last handler that ran
    sliderArg,        \* history: the argument it received (<<>>: undefined)
    sliderEmitted,    \* history: values the last handler passed to onChange
    \* ---- usePanelCollapse ----
    isExpanded,       \* options.isExpanded (<<>> when undefined)
    hasOnToggle,      \* whether options.onToggle is supplied
    internalExpanded, \* useState(defaultExpanded)
    onToggleCalls,    \* history: every value passed to onToggle, in order
    panelOp,          \* history: the last handler that ran
    panelBefore,      \* history: the returned expanded before the last handler
    constructedControlled, \* history: isControlled as the first render had it
    \* ---- useTheme ----
    defaultMode,      \* options.defaultMode
    storage,          \* localStorage[storageKey] (<<>> when absent)
    prefersDark,      \* window.matchMedia('(prefers-color-scheme: dark)').matches
    phase,            \* "unmounted" | "rendered" | "mounted"
    mode,             \* useState<ThemeMode>
    systemTheme,      \* useState<'light' | 'dark'>
    listeners,        \* how many 'change' handlers are registered
    themeRet,         \* the object useMemo caches and the hook returns
    themeRetDeps,     \* the dependency values themeRet was computed for
    modeSet,          \* history: whether setMode has run (toggle calls it)
    themeOp,          \* history: the last handler that ran
    themeBefore,      \* history: <<mode, resolvedTheme>> before the last handler
    toggleRun,        \* history: <<mode, resolvedTheme>> before each of the
                      \* last (at most two) toggles made in a row
    \* ---- Tooltip ----
    disabled,         \* props.disabled
    isVisible,        \* useState(false)
    timeoutRef,       \* useRef<number | null>(null).current (0: null)
    timers,           \* the window's pending timeouts, by id
    nextTimerId,      \* the id the next window.setTimeout returns
    tooltipMounted,   \* whether the component is mounted
    tooltipEvent,     \* history: the last pointer or focus event handled
    \* ---- Modal ----
    modals,           \* per instance: whether it is mounted, and props.isOpen
    overflow,         \* document.body.style.overflow
    modalOp           \* history: the last operation and its instance

tableVars  == <<columns, data, sortColumn, sortDirection, sortedData, sortRun,
                lastClick>>
sliderVars == <<min, max, step, controlledValue, hasOnChange, internalValue,
                ret, retDeps, sliderOp, sliderArg, sliderEmitted>>
panelVars  == <<isExpanded, hasOnToggle, internalExpanded, onToggleCalls,
                panelOp, panelBefore, constructedControlled>>
themeVars  == <<defaultMode, storage, prefersDark, phase, mode, systemTheme,
                listeners, themeRet, themeRetDeps, modeSet, themeOp,
                themeBefore, toggleRun>>
tooltipVars == <<disabled, isVisible, timeoutRef, timers, nextTimerId,
                 tooltipMounted, tooltipEvent>>
modalVars  == <<modals, overflow, modalOp>>
vars == <<tableVars, sliderVars, panelVars, themeVars, tooltipVars, modalVars>>

\* What a step of one unit leaves alone.
tableOthers  == <<sliderVars, panelVars, themeVars, tooltipVars, modalVars>>
sliderOthers == <<tableVars, panelVars, themeVars, tooltipVars, modalVars>>
panelOthers  == <<tableVars, sliderVars, themeVars, tooltipVars, modalVars>>
themeOthers  == <<tableVars, sliderVars, panelVars, tooltipVars, modalVars>>
tooltipOthers == <<tableVars, sliderVars, panelVars, themeVars, modalVars>>
modalOthers  == <<tableVars, sliderVars, panelVars, themeVars, tooltipVars>>

\* ---- bounds ----
MaxRows == 3
MaxRun == 4
MaxCalls == 3
MaxVal == 4
MaxTimers == 4
MaxModals == 3

\* ---- JavaScript values ----
Null == "NULL"
undefined == <<>>
Some(v) == <<v>>
IsDefined(opt) == opt # undefined
Get(opt) == opt[1]

(***************************************************************************)
(*                               DataTable                                 *)
(***************************************************************************)

\* A cell value (ReactNode) as the default comparison sees it: a number, a
\* string, undefined or null.
Num(n) == [t |-> "number", n |-> n, s |-> ""]
Str(s) == [t |-> "string", n |-> 0, s |-> s]
Undef  == [t |-> "undefined", n |-> 0, s |-> ""]
Nul    == [t |-> "null", n |-> 0, s |-> ""]

\* The rows a caller may pass: name is a string or undefined, v a number, m
\* a mix of numbers, strings and null.
Rows ==
    { [id |-> 1, name |-> Str("B"), v |-> Num(2), m |-> Num(10)],
      [id |-> 2, name |-> Str("A"), v |-> Num(1), m |-> Str("9")],
      [id |-> 3, name |-> Str("b"), v |-> Num(1), m |-> Num(9)],
      [id |-> 4, name |-> Undef,    v |-> Num(2), m |-> Nul] }

\* data: any sequence of distinct rows, at most MaxRows long.
DataSets ==
    UNION { { d \in [1..k -> Rows] : \A i, j \in 1..k : d[i] = d[j] => i = j }
            : k \in 0..MaxRows }

\* ColumnDef: id, sortable (true, false or absent), accessor (the row field
\* it projects) and sortFn ("none" when absent; "byV" is (a, b) => a.v - b.v).
ColumnDef(id, sortable, accessor, sortFn) ==
    [id |-> id, sortable |-> sortable, accessor |-> accessor, sortFn |-> sortFn]

Sortable == {undefined, Some(TRUE), Some(FALSE)}

\* The columns a caller may pass: name and v declare sortable true, false
\* or not at all; m and rank are sortable.
ColumnSets ==
    { << ColumnDef("name", f[1], "name", "none"),
         ColumnDef("v",    f[2], "v",    "none"),
         ColumnDef("m",    Some(TRUE), "m",    "none"),
         ColumnDef("rank", Some(TRUE), "name", "byV") >>
      : f \in [1..2 -> Sortable] }

\* x && ... for a boolean | undefined
Truthy(x) == IsDefined(x) /\ Get(x)

accessor(column, row) == row[column.accessor]

sortFn(column, a, b) == a.v.n - b.v.n

\* !x for a string | null
Falsy(x) == x = Null \/ x = ""

\* columns.find(c => c.id === id): the first match, <<>> when there is none
find(cols, id) ==
    LET hits == { i \in 1..Len(cols) : cols[i].id = id }
    IN  IF hits = {} THEN undefined
        ELSE Some(cols[CHOOSE i \in hits : \A j \in hits : i <= j])

\* String(val), without the ?? '' default.
StringNoDefault(val) ==
    IF val.t \in {"undefined", "null"} THEN val.t
    ELSE IF val.t = "number" THEN ToString(val.n)
    ELSE val.s

\* String(val ?? '')
String(val) ==
    IF val.t \in {"undefined", "null"} THEN ""
    ELSE IF val.t = "number" THEN ToString(val.n)
    ELSE val.s

\* The collation order of the strings that occur, and of the names String
\* gives undefined and null (digits before letters, lower case before upper
\* case of the same letter).
LocaleOrder == <<"", "10", "9", "A", "b", "B", "null", "undefined">>

LocaleRank(s) == CHOOSE i \in 1..Len(LocaleOrder) : LocaleOrder[i] = s

localeCompare(a, b) ==
    IF LocaleRank(a) < LocaleRank(b) THEN -1
    ELSE IF LocaleRank(a) > LocaleRank(b) THEN 1
    ELSE 0

\* A comparator that takes the default comparison also when the column has
\* a sortFn.
compareIgnoresSortFn(column, direction, a, b) ==
    LET aVal == accessor(column, a)
        bVal == accessor(column, b)
    IN  IF aVal.t = "number" /\ bVal.t = "number"
        THEN IF direction = "asc" THEN aVal.n - bVal.n ELSE bVal.n - aVal.n
        ELSE IF direction = "asc"
             THEN localeCompare(String(aVal), String(bVal))
             ELSE localeCompare(String(bVal), String(aVal))

\* A comparator whose numeric branch ignores the direction.
compareNumbersAscending(column, direction, a, b) ==
    IF column.sortFn # "none"
    THEN LET result == sortFn(column, a, b)
         IN  IF direction = "desc" THEN -result ELSE result
    ELSE LET aVal == accessor(column, a)
             bVal == accessor(column, b)
         IN  IF aVal.t = "number" /\ bVal.t = "number"
             THEN aVal.n - bVal.n
             ELSE IF direction = "asc"
                  THEN localeCompare(String(aVal), String(bVal))
                  ELSE localeCompare(String(bVal), String(aVal))

\* The comparator handed to Array.prototype.sort.
compare(column, direction, a, b) ==
    IF column.sortFn # "none"
    THEN LET result == sortFn(column, a, b)
         IN  IF direction = "desc" THEN -result ELSE result
    ELSE LET aVal == accessor(column, a)
             bVal == accessor(column, b)
         IN  IF aVal.t = "number" /\ bVal.t = "number"
             THEN IF direction = "asc" THEN aVal.n - bVal.n ELSE bVal.n - aVal.n
             ELSE IF direction = "asc"
                  THEN localeCompare(String(aVal), String(bVal))
                  ELSE localeCompare(String(bVal), String(aVal))

\* Array.prototype.sort with a consistent comparator is a stable sort: as
\* an insertion sort, an element moves left only past elements that compare
\* greater.
RECURSIVE insert(_, _, _, _)
insert(s, x, column, direction) ==
    IF s = <<>> THEN <<x>>
    ELSE IF compare(column, direction, s[Len(s)], x) > 0
         THEN Append(insert(SubSeq(s, 1, Len(s) - 1), x, column, direction),
                     s[Len(s)])
         ELSE Append(s, x)

RECURSIVE sort(_, _, _)
sort(s, column, direction) ==
    IF s = <<>> THEN <<>>
    ELSE insert(sort(SubSeq(s, 1, Len(s) - 1), column, direction),
                s[Len(s)], column, direction)

Range(s) == { s[i] : i \in 1..Len(s) }

\* Whether the comparator is a consistent comparator for the elements of s:
\* =, < and > as it reports them are reflexive, symmetric and transitive.
Consistent(s, column, direction) ==
    LET cmp(a, b) == compare(column, direction, a, b)
    IN  \A a, b, c \in Range(s) :
            /\ cmp(a, a) = 0
            /\ cmp(a, b) = 0 => cmp(b, a) = 0
            /\ cmp(a, b) = 0 /\ cmp(b, c) = 0 => cmp(a, c) = 0
            /\ cmp(a, b) < 0 /\ cmp(b, c) < 0 => cmp(a, c) < 0
            /\ cmp(a, b) > 0 /\ cmp(b, c) > 0 => cmp(a, c) > 0

\* Every order of the elements of s.
Orders(s) ==
    { p \in [1..Len(s) -> Range(s)] :
          \A x \in Range(s) : \E i \in 1..Len(s) : p[i] = x }

\* What [...data].sort(comparator) may return: the stable sort when the
\* comparator is consistent, and an order the engine chooses when it is not.
sortOutcomes(s, column, direction) ==
    IF Consistent(s, column, direction)
    THEN {sort(s, column, direction)}
    ELSE Orders(s)

\* A render that sorts by the first column when no sort is in force.
sortedDataOutcomesSortsAlways(rows, column_id, direction, cols) ==
    IF Falsy(column_id) \/ direction = Null
    THEN IF cols = <<>> THEN {rows} ELSE sortOutcomes(rows, cols[1], "asc")
    ELSE LET column == find(cols, column_id)
         IN  IF ~IsDefined(column) THEN {rows}
             ELSE sortOutcomes(rows, Get(column), direction)

\* What a render may compute as sortedData, from the props and the state it
\* runs with.
sortedDataOutcomes(rows, column_id, direction, cols) ==
    IF Falsy(column_id) \/ direction = Null THEN {rows}
    ELSE LET column == find(cols, column_id)
         IN  IF ~IsDefined(column) THEN {rows}
             ELSE sortOutcomes(rows, Get(column), direction)

\* The render that follows a state update computes sortedData again, from
\* the new sortColumn and sortDirection.
TableRender ==
    \E rows \in {data'}, column_id \in {sortColumn'},
       direction \in {sortDirection'}, cols \in {columns'} :
        sortedData' \in sortedDataOutcomes(rows, column_id, direction, cols)

\* A two-state cycle, which never clears the direction.
nextDirectionTwoState(prev) ==
    IF prev = "asc" THEN "desc" ELSE "asc"

\* An updater that clears an ascending sort instead of reversing it.
nextDirectionSkipsDesc(prev) ==
    IF prev = Null THEN "asc" ELSE Null

\* The updater handed to setSortDirection: asc -> desc -> null (-> asc).
nextDirection(prev) ==
    IF prev = "asc" THEN "desc" ELSE IF prev = "desc" THEN Null ELSE "asc"

\* The run of consecutive requests on one column that began in the unsorted
\* state: its column and its length (counted up to MaxRun); a request on
\* another column ends it.
NoRun == [column |-> Null, length |-> 0]

LogRequest(columnId) ==
    IF sortColumn = Null /\ sortDirection = Null
    THEN [column |-> columnId, length |-> 1]
    ELSE IF sortRun.column = columnId
         THEN [sortRun EXCEPT !.length =
                   IF @ < MaxRun THEN @ + 1 ELSE MaxRun]
         ELSE NoRun

\* handleSort without setSortColumn(null) on the third request.
handleSortKeepsColumn(columnId) ==
    /\ IF sortColumn = columnId
       THEN /\ sortDirection' = nextDirection(sortDirection)
            /\ sortColumn' = sortColumn
       ELSE /\ sortColumn' = columnId
            /\ sortDirection' = "asc"
    /\ sortRun' = LogRequest(columnId)
    /\ UNCHANGED <<columns, data>>
    /\ TableRender

\* handleSort followed by a render that sorts data itself, data.sort(...),
\* instead of a copy.
handleSortInPlace(columnId) ==
    /\ IF sortColumn = columnId
       THEN /\ sortDirection' = nextDirection(sortDirection)
            /\ sortColumn' = IF sortDirection = "desc" THEN Null ELSE sortColumn
       ELSE /\ sortColumn' = columnId
            /\ sortDirection' = "asc"
    /\ sortRun' = LogRequest(columnId)
    /\ UNCHANGED columns
    /\ \E column_id \in {sortColumn'}, direction \in {sortDirection'} :
           /\ sortedData' \in sortedDataOutcomes(data, column_id, direction, columns)
           /\ data' = IF Falsy(column_id) \/ direction = Null
                      THEN data ELSE sortedData'

\* handleSort that keeps the direction in force when the column changes.
handleSortKeepsDirection(columnId) ==
    /\ IF sortColumn = columnId
       THEN /\ sortDirection' = nextDirection(sortDirection)
            /\ sortColumn' = IF sortDirection = "desc" THEN Null ELSE sortColumn
       ELSE /\ sortColumn' = columnId
            /\ sortDirection' = IF sortDirection = Null THEN "asc" ELSE sortDirection
    /\ sortRun' = LogRequest(columnId)
    /\ UNCHANGED <<columns, data>>
    /\ TableRender

handleSort(columnId) ==
    /\ IF sortColumn = columnId
       THEN /\ sortDirection' = nextDirection(sortDirection)
            /\ sortColumn' = IF sortDirection = "desc" THEN Null ELSE sortColumn
       ELSE /\ sortColumn' = columnId
            /\ sortDirection' = "asc"
    /\ sortRun' = LogRequest(columnId)
    /\ UNCHANGED <<columns, data>>
    /\ TableRender

NoClick == [index |-> 0, column |-> Null, direction |-> Null]

LogClick(i) == [index |-> i, column |-> sortColumn, direction |-> sortDirection]

\* A header whose click handler calls handleSort whatever column.sortable is.
HeaderClickAlways(i) ==
    /\ i \in 1..Len(columns)
    /\ lastClick' = LogClick(i)
    /\ handleSort(columns[i].id)
    /\ UNCHANGED tableOthers

\* <th onClick={() => column.sortable && handleSort(column.id)}>
HeaderClick(i) ==
    /\ i \in 1..Len(columns)
    /\ lastClick' = LogClick(i)
    /\ IF Truthy(columns[i].sortable)
       THEN handleSort(columns[i].id)
       ELSE UNCHANGED <<columns, data, sortColumn, sortDirection, sortedData,
                        sortRun>>
    /\ UNCHANGED tableOthers

TableInit ==
    /\ columns \in ColumnSets
    /\ data \in DataSets
    /\ sortColumn = Null
    /\ sortDirection = Null
    /\ sortedData \in sortedDataOutcomes(data, sortColumn, sortDirection, columns)
    /\ sortRun = NoRun
    /\ lastClick = NoClick

TableNext == \E i \in 1..4 : HeaderClick(i)

(***************************************************************************)
(*              useSyncedSliderInput, Slider and NumberInput               *)
(***************************************************************************)

\* The numbers a caller or a user may supply.
Numbers == (0 - 1)..MaxVal

MathMin(a, b) == IF a < b THEN a ELSE b
MathMax(a, b) == IF a > b THEN a ELSE b

valueIsControlled == controlledValue # undefined

value == IF valueIsControlled THEN Get(controlledValue) ELSE internalValue

\* A clamp that forgets the upper bound.
clampLowerOnly(val) == MathMax(min, val)

clamp(val) == MathMin(max, MathMax(min, val))

\* useMemo(factory, deps): the cached object unless a dependency changed.
\* setValue and handleNumberInputChange change identity only with min, max,
\* isControlled and onChange, which are fixed for an instance.
memoDeps == <<value, min, max, step>>

\* A factory that hands the slider the internal state, not the value of record.
factoryInternalSlider ==
    [value |-> value,
     sliderProps |-> [value |-> internalValue, min |-> min, max |-> max,
                      step |-> step],
     numberInputProps |-> [value |-> value, min |-> min, max |-> max,
                           step |-> step]]

factory ==
    [value |-> value,
     sliderProps |-> [value |-> value, min |-> min, max |-> max, step |-> step],
     numberInputProps |-> [value |-> value, min |-> min, max |-> max, step |-> step]]

useMemo(cached, oldDeps, newDeps, fresh) ==
    IF oldDeps = newDeps THEN cached ELSE fresh

\* The re-render after a handler: the hook body runs on the new state.
SliderRender ==
    /\ ret' = useMemo(ret, retDeps, memoDeps', factory')
    /\ retDeps' = memoDeps'

\* setValue(newValue): what it stores and what it passes to onChange.
setValue(newValue) ==
    LET clamped == clamp(newValue)
    IN  /\ internalValue' = IF ~valueIsControlled THEN clamped ELSE internalValue
        /\ sliderEmitted' = IF hasOnChange THEN <<clamped>> ELSE <<>>

\* A handler that coerces the cleared input to zero (newValue ?? 0).
handleNumberInputChangeZero(newValue) ==
    setValue(IF newValue = undefined THEN 0 ELSE Get(newValue))

handleNumberInputChange(newValue) ==
    IF newValue = undefined
    THEN /\ internalValue' = internalValue
         /\ sliderEmitted' = <<>>
    ELSE setValue(Get(newValue))

\* ---- the host calls the returned setValue ----
SetValue(v) ==
    /\ setValue(v)
    /\ sliderOp' = "setValue"
    /\ sliderArg' = Some(v)
    /\ UNCHANGED <<min, max, step, controlledValue, hasOnChange>>
    /\ SliderRender
    /\ UNCHANGED sliderOthers

\* ---- Slider: <input type="range"> reports a position of its track ----
SliderPositions == IF min <= max THEN min..max ELSE {min}

\* Slider.handleChange: onChange(parseFloat(e.target.value)), onChange being
\* sliderProps.onChange = setValue.
SliderChange(v) ==
    /\ v \in SliderPositions
    /\ setValue(v)
    /\ sliderOp' = "slider"
    /\ sliderArg' = Some(v)
    /\ UNCHANGED <<min, max, step, controlledValue, hasOnChange>>
    /\ SliderRender
    /\ UNCHANGED sliderOthers

\* ---- NumberInput ----
\* Text a user may leave in the field, as a sequence of characters.
RawValues ==
    { <<>>, <<"-">>, <<"a">>, <<"3">>, <<"9">>, <<"-", "1">>, <<"1", "a">>,
      <<"-", "-">>, <<"0">> }

Digits == <<"0", "1", "2", "3", "4", "5", "6", "7", "8", "9">>
IsDigit(c) == \E i \in 1..10 : Digits[i] = c
DigitValue(c) == (CHOOSE i \in 1..10 : Digits[i] = c) - 1

\* The value of the longest prefix of digits of s, after acc.
RECURSIVE parseDigits(_, _)
parseDigits(s, acc) ==
    IF s = <<>> \/ ~IsDigit(Head(s)) THEN acc
    ELSE parseDigits(Tail(s), 10 * acc + DigitValue(Head(s)))

\* parseFloat on signed decimal integers: an optional sign, then digits;
\* <<>> is NaN (no digit where the number should start).
NaN == <<>>
parseFloat(s) ==
    LET body == IF s # <<>> /\ Head(s) = "-" THEN Tail(s) ELSE s
        magnitude == parseDigits(body, 0)
    IN  IF body = <<>> \/ ~IsDigit(Head(body)) THEN NaN
        ELSE IF s # body THEN Some(0 - magnitude) ELSE Some(magnitude)

isNaN(x) == x = NaN

\* NumberInput.handleInputChange, onChange being numberInputProps.onChange.
\* sliderOp records whether the hook's handler was reached.
handleInputChange(rawValue) ==
    IF rawValue = <<>> \/ rawValue = <<"-">>
    THEN /\ handleNumberInputChange(undefined)
         /\ sliderOp' = "numberInput"
         /\ sliderArg' = undefined
    ELSE LET parsed == parseFloat(rawValue)
         IN  IF ~isNaN(parsed)
             THEN /\ handleNumberInputChange(parsed)
                  /\ sliderOp' = "numberInput"
                  /\ sliderArg' = parsed
             ELSE /\ UNCHANGED internalValue
                  /\ sliderEmitted' = <<>>
                  /\ sliderOp' = "ignored"
                  /\ sliderArg' = undefined

NumberInputType(rawValue) ==
    /\ handleInputChange(rawValue)
    /\ UNCHANGED <<min, max, step, controlledValue, hasOnChange>>
    /\ SliderRender
    /\ UNCHANGED sliderOthers

\* numericValue is numberInputProps.value, always a number here.
isIncrementDisabled == ret.numberInputProps.value >= max
isDecrementDisabled == ret.numberInputProps.value <= min

handleIncrement ==
    LET current == ret.numberInputProps.value
        next == current + step
    IN  IF next <= max
        THEN /\ handleNumberInputChange(Some(next))
             /\ sliderOp' = "numberInput"
             /\ sliderArg' = Some(next)
        ELSE /\ UNCHANGED internalValue
             /\ sliderEmitted' = <<>>
             /\ sliderOp' = "ignored"
             /\ sliderArg' = undefined

handleDecrement ==
    LET current == ret.numberInputProps.value
        next == current - step
    IN  IF next >= min
        THEN /\ handleNumberInputChange(Some(next))
             /\ sliderOp' = "numberInput"
             /\ sliderArg' = Some(next)
        ELSE /\ UNCHANGED internalValue
             /\ sliderEmitted' = <<>>
             /\ sliderOp' = "ignored"
             /\ sliderArg' = undefined

NumberInputIncrement ==
    /\ ~isIncrementDisabled
    /\ handleIncrement
    /\ UNCHANGED <<min, max, step, controlledValue, hasOnChange>>
    /\ SliderRender
    /\ UNCHANGED sliderOthers

NumberInputDecrement ==
    /\ ~isDecrementDisabled
    /\ handleDecrement
    /\ UNCHANGED <<min, max, step, controlledValue, hasOnChange>>
    /\ SliderRender
    /\ UNCHANGED sliderOthers

\* ---- the owner of a controlled value renders the hook with a new one ----
SliderProps(v) ==
    /\ valueIsControlled
    /\ controlledValue' = Some(v)
    /\ sliderOp' = "props"
    /\ sliderArg' = Some(v)
    /\ sliderEmitted' = <<>>
    /\ UNCHANGED <<min, max, step, hasOnChange, internalValue>>
    /\ SliderRender
    /\ UNCHANGED sliderOthers

\* The first render: useSyncedSliderInput(options).
SliderInit ==
    /\ min \in 0..2
    /\ max \in 1..3
    /\ step \in 1..2
    /\ controlledValue \in {undefined} \cup { Some(v) : v \in Numbers }
    /\ hasOnChange \in BOOLEAN
    /\ internalValue \in Numbers
    /\ ret = factory
    /\ retDeps = memoDeps
    /\ sliderOp = "init"
    /\ sliderArg = undefined
    /\ sliderEmitted = <<>>

SliderNext ==
    \/ \E v \in Numbers : SetValue(v)
    \/ \E v \in Numbers : SliderChange(v)
    \/ \E rawValue \in RawValues : NumberInputType(rawValue)
    \/ NumberInputIncrement
    \/ NumberInputDecrement
    \/ \E v \in Numbers : SliderProps(v)

(***************************************************************************)
(*                            usePanelCollapse                             *)
(***************************************************************************)

panelIsControlled == isExpanded # undefined

\* The returned value read from the internal state alone.
expandedFromInternal == internalExpanded

expanded == IF panelIsControlled THEN Get(isExpanded) ELSE internalExpanded

\* onToggle?.(v)
onToggle(v) == IF hasOnToggle THEN <<v>> ELSE <<>>

\* A toggle that notifies only when it also writes (uncontrolled).
toggleNotifiesUncontrolled ==
    LET nextValue == ~expanded
    IN  /\ Len(onToggleCalls) < MaxCalls
        /\ internalExpanded' =
               IF ~panelIsControlled THEN nextValue ELSE internalExpanded
        /\ onToggleCalls' =
               IF ~panelIsControlled THEN onToggleCalls \o onToggle(nextValue)
               ELSE onToggleCalls
        /\ panelOp' = "toggle"
        /\ panelBefore' = expanded
        /\ UNCHANGED <<isExpanded, hasOnToggle, constructedControlled>>
        /\ UNCHANGED panelOthers

toggle ==
    LET nextValue == ~expanded
    IN  /\ Len(onToggleCalls) < MaxCalls
        /\ internalExpanded' =
               IF ~panelIsControlled THEN nextValue ELSE internalExpanded
        /\ onToggleCalls' = onToggleCalls \o onToggle(nextValue)
        /\ panelOp' = "toggle"
        /\ panelBefore' = expanded
        /\ UNCHANGED <<isExpanded, hasOnToggle, constructedControlled>>
        /\ UNCHANGED panelOthers

\* One event handler of the owner calls the returned toggle twice: both
\* calls run the callback of the last render, with the expanded and the
\* isControlled it captured, and React renders again after the handler.
toggleTwice ==
    LET nextValue == ~expanded
    IN  /\ Len(onToggleCalls) + 1 < MaxCalls
        /\ internalExpanded' =
               IF ~panelIsControlled THEN nextValue ELSE internalExpanded
        /\ onToggleCalls' =
               (onToggleCalls \o onToggle(nextValue)) \o onToggle(nextValue)
        /\ panelOp' = "toggleTwice"
        /\ panelBefore' = expanded
        /\ UNCHANGED <<isExpanded, hasOnToggle, constructedControlled>>
        /\ UNCHANGED panelOthers

\* An expand without the "if (!expanded)" test.
expandUnconditional ==
    /\ Len(onToggleCalls) < MaxCalls
    /\ internalExpanded' = IF ~panelIsControlled THEN TRUE ELSE internalExpanded
    /\ onToggleCalls' = onToggleCalls \o onToggle(TRUE)
    /\ panelOp' = "expand"
    /\ panelBefore' = expanded
    /\ UNCHANGED <<isExpanded, hasOnToggle, constructedControlled>>
    /\ UNCHANGED panelOthers

expand ==
    /\ Len(onToggleCalls) < MaxCalls
    /\ IF ~expanded
       THEN /\ internalExpanded' =
                   IF ~panelIsControlled THEN TRUE ELSE internalExpanded
            /\ onToggleCalls' = onToggleCalls \o onToggle(TRUE)
       ELSE /\ UNCHANGED internalExpanded
            /\ UNCHANGED onToggleCalls
    /\ panelOp' = "expand"
    /\ panelBefore' = expanded
    /\ UNCHANGED <<isExpanded, hasOnToggle, constructedControlled>>
    /\ UNCHANGED panelOthers

collapse ==
    /\ Len(onToggleCalls) < MaxCalls
    /\ IF expanded
       THEN /\ internalExpanded' =
                   IF ~panelIsControlled THEN FALSE ELSE internalExpanded
            /\ onToggleCalls' = onToggleCalls \o onToggle(FALSE)
       ELSE /\ UNCHANGED internalExpanded
            /\ UNCHANGED onToggleCalls
    /\ panelOp' = "collapse"
    /\ panelBefore' = expanded
    /\ UNCHANGED <<isExpanded, hasOnToggle, constructedControlled>>
    /\ UNCHANGED panelOthers

\* The owner renders the hook again, with any isExpanded (or none).
PanelProps(v) ==
    /\ isExpanded' = v
    /\ panelOp' = "props"
    /\ UNCHANGED onToggleCalls
    /\ panelBefore' = expanded
    /\ UNCHANGED <<hasOnToggle, internalExpanded, constructedControlled>>
    /\ UNCHANGED panelOthers

\* The first render: usePanelCollapse({defaultExpanded, isExpanded, onToggle}).
PanelInit ==
    /\ isExpanded \in {undefined, Some(TRUE), Some(FALSE)}
    /\ hasOnToggle \in BOOLEAN
    /\ internalExpanded \in BOOLEAN
    /\ panelOp = "init"
    /\ onToggleCalls = <<>>
    /\ panelBefore = expanded
    /\ constructedControlled = panelIsControlled

PanelNext ==
    \/ toggle
    \/ toggleTwice
    \/ expand
    \/ collapse
    \/ \E v \in {undefined, Some(TRUE), Some(FALSE)} : PanelProps(v)

(***************************************************************************)
(*                                useTheme                                 *)
(***************************************************************************)

ThemeModes == {"light", "dark", "system"}

\* What localStorage may hold under storageKey when the hook starts: nothing,
\* a mode, or any other string.
StoredValues ==
    {undefined} \cup { Some(s) : s \in ThemeModes \cup {"", "blue"} }

\* localStorage.getItem(storageKey) || defaultMode, cast to ThemeMode
initialMode ==
    IF storage = undefined \/ storage = Some("") THEN defaultMode
    ELSE Get(storage)

\* matchMedia('(prefers-color-scheme: dark)').matches ? 'dark' : 'light'
initialSystemTheme == IF prefersDark THEN "dark" ELSE "light"

\* The test on mode inverted.
resolvedThemeInverted == IF mode # "system" THEN systemTheme ELSE mode

resolvedTheme == IF mode = "system" THEN systemTheme ELSE mode

\* useMemo(() => ({mode, resolvedTheme, ...}), [mode, resolvedTheme, ...]);
\* the callbacks and accentColor are left out.
themeMemoDeps == <<mode, resolvedTheme>>

themeFactory == [mode |-> mode, resolvedTheme |-> resolvedTheme]

\* The re-render after a state update: the hook body runs on the new state.
ThemeRender ==
    /\ themeRet' = useMemo(themeRet, themeRetDeps, themeMemoDeps', themeFactory')
    /\ themeRetDeps' = themeMemoDeps'

\* A setMode that updates the state and leaves the store alone.
setModeUnsaved(newMode) ==
    /\ mode' = newMode
    /\ storage' = storage
    /\ modeSet' = TRUE

setMode(newMode) ==
    /\ mode' = newMode
    /\ storage' = Some(newMode)
    /\ modeSet' = TRUE

ThemeSetMode(newMode) ==
    /\ phase = "mounted"
    /\ setMode(newMode)
    /\ themeOp' = "setMode"
    /\ themeBefore' = <<mode, resolvedTheme>>
    /\ toggleRun' = <<>>
    /\ UNCHANGED <<defaultMode, prefersDark, phase, systemTheme, listeners>>
    /\ ThemeRender
    /\ UNCHANGED themeOthers

\* A target computed from the stored mode.
nextFromMode == IF mode = "dark" THEN "light" ELSE "dark"

\* toggle's target: the opposite of the resolved theme
next == IF resolvedTheme = "dark" THEN "light" ELSE "dark"

LastTwo(s) == IF Len(s) > 2 THEN Tail(s) ELSE s

ThemeToggle ==
    /\ phase = "mounted"
    /\ setMode(next)
    /\ themeOp' = "toggle"
    /\ themeBefore' = <<mode, resolvedTheme>>
    /\ toggleRun' = LastTwo(Append(toggleRun, <<mode, resolvedTheme>>))
    /\ UNCHANGED <<defaultMode, prefersDark, phase, systemTheme, listeners>>
    /\ ThemeRender
    /\ UNCHANGED themeOthers

\* The mount effect: mediaQuery.addEventListener('change', handler)
ThemeMount ==
    /\ phase = "rendered"
    /\ phase' = "mounted"
    /\ listeners' = listeners + 1
    /\ themeOp' = "mount"
    /\ themeBefore' = <<mode, resolvedTheme>>
    /\ toggleRun' = <<>>
    /\ UNCHANGED <<defaultMode, storage, prefersDark, mode, systemTheme>>
    /\ UNCHANGED <<themeRet, themeRetDeps, modeSet>>
    /\ UNCHANGED themeOthers

\* The platform's colour scheme flips; a registered handler receives the
\* event and stores e.matches ? 'dark' : 'light'.
PlatformChange ==
    /\ prefersDark' = ~prefersDark
    /\ systemTheme' =
           IF listeners > 0 THEN (IF prefersDark' THEN "dark" ELSE "light")
           ELSE systemTheme
    /\ themeOp' = "platform"
    /\ themeBefore' = <<mode, resolvedTheme>>
    /\ toggleRun' = <<>>
    /\ UNCHANGED <<defaultMode, storage, phase, mode, listeners, modeSet>>
    /\ ThemeRender
    /\ UNCHANGED themeOthers

\* An unmount whose effect returns no cleanup: the handler stays registered.
ThemeUnmountLeaks ==
    /\ phase = "mounted"
    /\ phase' = "unmounted"
    /\ listeners' = listeners
    /\ themeOp' = "unmount"
    /\ themeBefore' = <<mode, resolvedTheme>>
    /\ toggleRun' = <<>>
    /\ UNCHANGED <<defaultMode, storage, prefersDark, mode, systemTheme>>
    /\ UNCHANGED <<themeRet, themeRetDeps, modeSet>>
    /\ UNCHANGED themeOthers

\* The effect's cleanup: mediaQuery.removeEventListener('change', handler)
ThemeUnmount ==
    /\ phase = "mounted"
    /\ phase' = "unmounted"
    /\ listeners' = listeners - 1
    /\ themeOp' = "unmount"
    /\ themeBefore' = <<mode, resolvedTheme>>
    /\ toggleRun' = <<>>
    /\ UNCHANGED <<defaultMode, storage, prefersDark, mode, systemTheme>>
    /\ UNCHANGED <<themeRet, themeRetDeps, modeSet>>
    /\ UNCHANGED themeOthers

\* A reload: a new instance runs its useState initializers.
ThemeReload ==
    /\ phase = "unmounted"
    /\ phase' = "rendered"
    /\ mode' = initialMode
    /\ systemTheme' = initialSystemTheme
    /\ themeOp' = "init"
    /\ themeBefore' = <<mode, resolvedTheme>>
    /\ toggleRun' = <<>>
    /\ UNCHANGED <<defaultMode, storage, prefersDark, listeners, modeSet>>
    /\ themeRet' = themeFactory'
    /\ themeRetDeps' = themeMemoDeps'
    /\ UNCHANGED themeOthers

\* The first render: useTheme({defaultMode}).
ThemeInit ==
    /\ defaultMode \in ThemeModes
    /\ storage \in StoredValues
    /\ prefersDark \in BOOLEAN
    /\ phase = "rendered"
    /\ mode = initialMode
    /\ systemTheme = initialSystemTheme
    /\ listeners = 0
    /\ themeRet = themeFactory
    /\ themeRetDeps = themeMemoDeps
    /\ modeSet = FALSE
    /\ themeOp = "init"
    /\ themeBefore = <<mode, resolvedTheme>>
    /\ toggleRun = <<>>

ThemeNext ==
    \/ \E newMode \in ThemeModes : ThemeSetMode(newMode)
    \/ ThemeToggle
    \/ ThemeMount
    \/ PlatformChange
    \/ ThemeUnmount
    \/ ThemeReload

(***************************************************************************)
(*                                Tooltip                                  *)
(***************************************************************************)

\* What the tree renders: {isVisible && !disabled && <div role="tooltip">}
tooltipShown == tooltipMounted /\ isVisible /\ ~disabled

\* onMouseEnter and onFocus. window.setTimeout returns a fresh positive id.
showTooltip ==
    /\ tooltipMounted
    /\ nextTimerId <= MaxTimers
    /\ IF disabled
       THEN UNCHANGED <<timeoutRef, timers, nextTimerId>>
       ELSE /\ timers' = timers \cup {nextTimerId}
            /\ timeoutRef' = nextTimerId
            /\ nextTimerId' = nextTimerId + 1
    /\ tooltipEvent' = "show"
    /\ UNCHANGED <<disabled, isVisible, tooltipMounted>>
    /\ UNCHANGED tooltipOthers

\* onMouseLeave and onBlur. clearTimeout on an id that fired is a no-op.
hideTooltip ==
    /\ tooltipMounted
    /\ timers' = IF timeoutRef # 0 THEN timers \ {timeoutRef} ELSE timers
    /\ isVisible' = FALSE
    /\ tooltipEvent' = "hide"
    /\ UNCHANGED <<disabled, timeoutRef, nextTimerId, tooltipMounted>>
    /\ UNCHANGED tooltipOthers

\* The delay of a pending timeout elapses: () => setIsVisible(true). On an
\* unmounted component the update is dropped.
TimerFires(id) ==
    /\ id \in timers
    /\ timers' = timers \ {id}
    /\ isVisible' = IF tooltipMounted THEN TRUE ELSE isVisible
    /\ UNCHANGED <<disabled, timeoutRef, nextTimerId, tooltipMounted,
                   tooltipEvent>>
    /\ UNCHANGED tooltipOthers

\* The cleanup of the mount effect.
TooltipUnmount ==
    /\ tooltipMounted
    /\ tooltipMounted' = FALSE
    /\ timers' = IF timeoutRef # 0 THEN timers \ {timeoutRef} ELSE timers
    /\ UNCHANGED <<disabled, isVisible, timeoutRef, nextTimerId, tooltipEvent>>
    /\ UNCHANGED tooltipOthers

TooltipInit ==
    /\ disabled \in BOOLEAN
    /\ isVisible = FALSE
    /\ timeoutRef = 0
    /\ timers = {}
    /\ nextTimerId = 1
    /\ tooltipMounted = TRUE
    /\ tooltipEvent = "none"

TooltipNext ==
    \/ showTooltip
    \/ hideTooltip
    \/ \E id \in 1..MaxTimers : TimerFires(id)
    \/ TooltipUnmount

(***************************************************************************)
(*                                 Modal                                   *)
(***************************************************************************)

ModalIds == 1..MaxModals

Unmounted == [mounted |-> FALSE, isOpen |-> FALSE]

\* The body of the scroll-lock effect.
scrollLock(isOpen) == IF isOpen THEN "hidden" ELSE ""

\* A Modal is mounted with isOpen: its effects run after the first render.
ModalMount(i, isOpen) ==
    /\ ~modals[i].mounted
    /\ modals' = [modals EXCEPT ![i] = [mounted |-> TRUE, isOpen |-> isOpen]]
    /\ overflow' = scrollLock(isOpen)
    /\ modalOp' = [op |-> "mount", id |-> i]
    /\ UNCHANGED modalOthers

\* The owner renders a mounted Modal with another isOpen: the dependency
\* changed, so the cleanup of the last effect runs, then the effect.
ModalSetOpen(i, isOpen) ==
    /\ modals[i].mounted
    /\ modals[i].isOpen # isOpen
    /\ modals' = [modals EXCEPT ![i].isOpen = isOpen]
    /\ overflow' = scrollLock(isOpen)
    /\ modalOp' = [op |-> IF isOpen THEN "open" ELSE "close", id |-> i]
    /\ UNCHANGED modalOthers

\* A mounted Modal is unmounted: the cleanup of its effect runs.
ModalUnmount(i) ==
    /\ modals[i].mounted
    /\ modals' = [modals EXCEPT ![i] = Unmounted]
    /\ overflow' = ""
    /\ modalOp' = [op |-> "unmount", id |-> i]
    /\ UNCHANGED modalOthers

ModalInit ==
    /\ modals = [i \in ModalIds |-> Unmounted]
    /\ overflow = ""
    /\ modalOp = [op |-> "init", id |-> 0]

ModalNext ==
    \/ \E i \in ModalIds, isOpen \in BOOLEAN : ModalMount(i, isOpen)
    \/ \E i \in ModalIds, isOpen \in BOOLEAN : ModalSetOpen(i, isOpen)
    \/ \E i \in ModalIds : ModalUnmount(i)

(***************************************************************************)
(*                            Specifications                               *)
(***************************************************************************)

\* Each unit called with no options, as it sits while another unit runs.
TableDefault ==
    /\ columns = <<>>
    /\ data = <<>>
    /\ sortColumn = Null
    /\ sortDirection = Null
    /\ sortedData = <<>>
    /\ sortRun = NoRun
    /\ lastClick = NoClick

SliderDefault ==
    /\ min = 0
    /\ max = 100
    /\ step = 1
    /\ controlledValue = undefined
    /\ hasOnChange = FALSE
    /\ internalValue = 0
    /\ ret = factory
    /\ retDeps = memoDeps
    /\ sliderOp = "init"
    /\ sliderArg = undefined
    /\ sliderEmitted = <<>>

PanelDefault ==
    /\ isExpanded = undefined
    /\ hasOnToggle = FALSE
    /\ internalExpanded = TRUE
    /\ panelOp = "init"
    /\ onToggleCalls = <<>>
    /\ panelBefore = TRUE
    /\ constructedControlled = FALSE

ThemeDefault ==
    /\ defaultMode = "system"
    /\ storage = undefined
    /\ prefersDark = FALSE
    /\ phase = "rendered"
    /\ mode = "system"
    /\ systemTheme = "light"
    /\ listeners = 0
    /\ themeRet = themeFactory
    /\ themeRetDeps = themeMemoDeps
    /\ modeSet = FALSE
    /\ themeOp = "init"
    /\ themeBefore = <<"system", "light">>
    /\ toggleRun = <<>>

TooltipDefault ==
    /\ disabled = FALSE
    /\ isVisible = FALSE
    /\ timeoutRef = 0
    /\ timers = {}
    /\ nextTimerId = 1
    /\ tooltipMounted = FALSE
    /\ tooltipEvent = "none"

ModalDefault ==
    /\ modals = [i \in ModalIds |-> Unmounted]
    /\ overflow = ""
    /\ modalOp = [op |-> "init", id |-> 0]

InitTable  ==
    /\ TableInit /\ SliderDefault /\ PanelDefault /\ ThemeDefault
    /\ TooltipDefault /\ ModalDefault
InitSlider ==
    /\ TableDefault /\ SliderInit /\ PanelDefault /\ ThemeDefault
    /\ TooltipDefault /\ ModalDefault
InitPanel  ==
    /\ TableDefault /\ SliderDefault /\ PanelInit /\ ThemeDefault
    /\ TooltipDefault /\ ModalDefault
InitTheme  ==
    /\ TableDefault /\ SliderDefault /\ PanelDefault /\ ThemeInit
    /\ TooltipDefault /\ ModalDefault
InitTooltip ==
    /\ TableDefault /\ SliderDefault /\ PanelDefault /\ ThemeDefault
    /\ TooltipInit /\ ModalDefault
InitModal ==
    /\ TableDefault /\ SliderDefault /\ PanelDefault /\ ThemeDefault
    /\ TooltipDefault /\ ModalInit

SpecTable  == InitTable  /\ [][TableNext]_vars
SpecSlider == InitSlider /\ [][SliderNext]_vars
SpecPanel  == InitPanel  /\ [][PanelNext]_vars
SpecTheme  == InitTheme  /\ [][ThemeNext]_vars
SpecTooltip == InitTooltip /\ [][TooltipNext]_vars
SpecModal  == InitModal  /\ [][ModalNext]_vars

Init ==
    /\ TableInit /\ SliderInit /\ PanelInit /\ ThemeInit
    /\ TooltipInit /\ ModalInit

Next ==
    \/ TableNext \/ SliderNext \/ PanelNext \/ ThemeNext
    \/ TooltipNext \/ ModalNext

Spec == Init /\ [][Next]_vars

(***************************************************************************)
(*                          Properties: DataTable                          *)
(***************************************************************************)

Unsorted == sortColumn = Null /\ sortDirection = Null

\* C1: three consecutive sort requests on one sortable column, the first of
\* them made in the unsorted state, leave no active column and no direction,
\* and the rows displayed are the input rows in their input order.
C1_ThreeRequestsRestoreInput ==
    sortRun.length = 3 => Unsorted /\ sortedData = data

\* The third request of such a run has been handled, on a column whose
\* ascending order differs from the input order.
C1_Witness ==
    /\ sortRun.length = 3
    /\ sortRun.column = "v"
    /\ sort(data, Get(find(columns, "v")), "asc") # data
    /\ sortedData = data

\* C2: whenever the direction is null the sort column is null too: the two
\* are cleared together.
C2_NoDirectionNoColumn ==
    sortDirection = Null => sortColumn = Null

\* The sort has been cleared by a request on the column sorted descending.
C2_Witness ==
    /\ sortRun.length = 3
    /\ sortRun.column = "name"
    /\ sortDirection = Null
    /\ sortColumn = Null

(***************************************************************************)
(*                    Properties: useSyncedSliderInput                     *)
(***************************************************************************)

InRange(v) == min <= v /\ v <= max

\* C3: in every state, the initial one included, the value the hook returns,
\* also as sliderProps.value and numberInputProps.value, lies in [min, max].
C3_ReturnedValueInRange ==
    min <= max =>
        /\ InRange(ret.value)
        /\ InRange(ret.sliderProps.value)
        /\ InRange(ret.numberInputProps.value)

\* The value setValue(v) is to store and emit: v, or the bound it lies beyond.
Clamped(v) == IF v < min THEN min ELSE IF v > max THEN max ELSE v

\* C4: with min < max, setValue(v) stores (when uncontrolled) and passes to
\* onChange (when supplied) the clamped v, which is min or max, never v,
\* when v lies outside [min, max]; a controlled hook stores nothing.
C4_SetValueClamps ==
    [][\A v \in Numbers :
          (SetValue(v) /\ min < max) =>
              /\ internalValue' =
                     IF valueIsControlled THEN internalValue ELSE Clamped(v)
              /\ sliderEmitted' = IF hasOnChange THEN <<Clamped(v)>> ELSE <<>>
              /\ ~InRange(v) => Clamped(v) \in {min, max} \ {v}
              /\ ~valueIsControlled => InRange(value')]_vars

\* setValue was called with a number above max on an uncontrolled hook with
\* a listener: max was stored and emitted.
C4_Witness ==
    /\ sliderOp = "setValue"
    /\ min < max
    /\ Get(sliderArg) > max
    /\ ~valueIsControlled
    /\ internalValue = max
    /\ sliderEmitted = <<max>>

\* C8: the number input's empty update (the text '' or '-', passed on as
\* undefined) leaves the value unchanged and calls no listener.
C8_EmptyInputIgnored ==
    [][/\ \A rawValue \in {<<>>, <<"-">>} :
              NumberInputType(rawValue) =>
                  sliderOp' = "numberInput" /\ sliderArg' = undefined
       /\ (sliderOp' = "numberInput" /\ sliderArg' = undefined) =>
              /\ value' = value
              /\ internalValue' = internalValue
              /\ ret' = ret
              /\ sliderEmitted' = <<>>]_vars

\* The input was cleared on an uncontrolled hook with a listener whose value
\* is not what zero would be clamped to.
C8_Witness ==
    /\ sliderOp = "numberInput"
    /\ sliderArg = undefined
    /\ hasOnChange
    /\ ~valueIsControlled
    /\ value # Clamped(0)
    /\ sliderEmitted = <<>>

\* C9: the value given to the slider, the value given to the number input and
\* the value returned are one number, the current value of record.
C9_ModalitiesAgree ==
    /\ ret.sliderProps.value = ret.numberInputProps.value
    /\ ret.sliderProps.value = ret.value
    /\ ret.value = value

\* A number typed into the number input was stored and emitted, and is what
\* the slider is given.
C9_Witness ==
    /\ sliderOp = "numberInput"
    /\ sliderArg # undefined
    /\ InRange(Get(sliderArg))
    /\ ret.sliderProps.value = Get(sliderArg)
    /\ ~valueIsControlled
    /\ sliderEmitted = <<Get(sliderArg)>>

(***************************************************************************)
(*                      Properties: usePanelCollapse                       *)
(***************************************************************************)

\* onToggleCalls after one more call with v, when a callback is supplied.
Notified(v) == IF hasOnToggle THEN Append(onToggleCalls, v) ELSE onToggleCalls

\* internalExpanded after a write of v that only an uncontrolled hook makes.
Written(v) == IF isExpanded = undefined THEN v ELSE internalExpanded

\* C5: toggle() takes the negation of the current expanded value, writes it
\* to the internal state only when uncontrolled, and calls onToggle, when
\* supplied, exactly once with it, controlled or not.
C5_ToggleFlipsAndNotifies ==
    [][panelOp' = "toggle" =>
          /\ expanded => internalExpanded' = Written(FALSE)
                         /\ onToggleCalls' = Notified(FALSE)
          /\ ~expanded => internalExpanded' = Written(TRUE)
                          /\ onToggleCalls' = Notified(TRUE)
          /\ isExpanded' = isExpanded]_vars

\* A controlled, expanded hook with a callback was toggled once: the callback
\* got false and the internal state was left alone.
C5_Witness ==
    /\ panelOp = "toggle"
    /\ isExpanded = Some(TRUE)
    /\ hasOnToggle
    /\ onToggleCalls = <<FALSE>>
    /\ internalExpanded = TRUE

\* C6: while controlled, toggle, expand and collapse leave the returned
\* expanded unchanged (it changes only with a new isExpanded), and toggle
\* still calls onToggle with the negation of the controlled value; when
\* uncontrolled and collapsed, toggle yields expanded = true.
C6_ControlledValueIsCallers ==
    [][/\ (isExpanded # undefined /\ panelOp' \in {"toggle", "expand", "collapse"})
              => expanded' = expanded
       /\ (isExpanded # undefined /\ isExpanded' # undefined /\ expanded' # expanded)
              => isExpanded' # isExpanded
       /\ (isExpanded # undefined /\ panelOp' = "toggle")
              => onToggleCalls' = Notified(~Get(isExpanded))
       /\ (isExpanded = undefined /\ ~internalExpanded /\ panelOp' = "toggle")
              => expanded']_vars

\* A hook controlled with isExpanded = true was toggled twice: it still
\* returns true and the callback got false both times.
C6_Witness ==
    /\ panelOp = "toggle"
    /\ isExpanded = Some(TRUE)
    /\ expanded
    /\ onToggleCalls = <<FALSE, FALSE>>

\* C7: expand() on an expanded panel and collapse() on a collapsed one change
\* nothing and call onToggle zero times; otherwise they write the target
\* (uncontrolled only) and call onToggle exactly once with it.
C7_ExpandCollapseConditional ==
    [][/\ (panelOp' = "expand" /\ expanded) =>
              UNCHANGED <<internalExpanded, isExpanded, onToggleCalls>>
       /\ (panelOp' = "collapse" /\ ~expanded) =>
              UNCHANGED <<internalExpanded, isExpanded, onToggleCalls>>
       /\ (panelOp' = "expand" /\ ~expanded) =>
              /\ internalExpanded' = Written(TRUE)
              /\ onToggleCalls' = Notified(TRUE)
       /\ (panelOp' = "collapse" /\ expanded) =>
              /\ internalExpanded' = Written(FALSE)
              /\ onToggleCalls' = Notified(FALSE)]_vars

\* expand() was called on an expanded panel that has a callback: no call.
C7_Witness ==
    /\ panelOp = "expand"
    /\ panelBefore
    /\ expanded
    /\ hasOnToggle
    /\ onToggleCalls = <<>>

(***************************************************************************)
(*                          Properties: useTheme                           *)
(***************************************************************************)

\* C10: toggle() sets the mode, in memory and in the store, to the opposite of
\* the resolved theme: from mode system with the platform dark one toggle
\* gives light (never system), and the toggle after it gives dark.
C10_ToggleTargetsResolvedOpposite ==
    [][themeOp' = "toggle" =>
          /\ resolvedTheme = "dark" => mode' = "light"
          /\ resolvedTheme = "light" => mode' = "dark"
          /\ mode' # "system"
          /\ storage' = Some(mode')
          /\ toggleRun' = << <<"system", "dark">> >> => mode' = "light"
          /\ (Len(toggleRun') = 2 /\ toggleRun'[1] = <<"system", "dark">>)
                 => mode' = "dark"]_vars

\* Two toggles in a row were made, the first in mode system with the platform
\* dark: the mode is dark and so is the stored mode.
C10_Witness ==
    /\ Len(toggleRun) = 2
    /\ toggleRun[1] = <<"system", "dark">>
    /\ toggleRun[2] = <<"light", "light">>
    /\ mode = "dark"
    /\ storage = Some("dark")

\* C11: the resolved theme the hook returns is the mode when the mode is light
\* or dark and the system preference (systemTheme) when the mode is system.
C11_ResolvedThemeDerived ==
    /\ themeRet.mode = mode
    /\ mode \in {"light", "dark"} => themeRet.resolvedTheme = mode
    /\ mode = "system" => themeRet.resolvedTheme = systemTheme

\* In mode system the platform turned dark under a mounted hook, and the
\* returned resolved theme followed.
C11_Witness ==
    /\ phase = "mounted"
    /\ themeOp = "platform"
    /\ themeBefore = <<"system", "light">>
    /\ mode = "system"
    /\ themeRet.resolvedTheme = "dark"

\* C12: the resolved theme the hook returns is 'light' or 'dark', whatever
\* string the store held when the hook started.
C12_ResolvedThemeLightOrDark ==
    themeRet.resolvedTheme \in {"light", "dark"}

\* C13: once setMode or toggle has run, the stored mode is the mode in
\* memory, and the initializer of a new instance, reading the store, yields
\* that same mode.
C13_StoredModeIsMode ==
    modeSet => storage = Some(mode) /\ initialMode = mode

\* A mode other than the default was set, the hook unmounted, and a new
\* instance started from the store with that mode.
C13_Witness ==
    /\ modeSet
    /\ themeOp = "init"
    /\ phase = "rendered"
    /\ mode # defaultMode
    /\ storage = Some(mode)

\* The theme the platform signal stands for.
PlatformTheme == IF prefersDark THEN "dark" ELSE "light"

\* C14: while the hook is mounted (its effects have run) and every change
\* notification has been handled, systemTheme is the platform's current
\* colour scheme, also after a change that fell between the initial read and
\* the registration of the listener.
C14_SystemThemeTracksPlatform ==
    phase = "mounted" => systemTheme = PlatformTheme

\* C15: a mounted hook has exactly one change listener registered, a hook
\* not (or not yet) mounted has none, and a platform change after unmount
\* updates no state.
C15_OneListenerWhileMounted ==
    /\ [](/\ phase = "mounted" => listeners = 1
          /\ phase # "mounted" => listeners = 0)
    /\ [][(phase = "unmounted" /\ themeOp' = "platform") =>
              UNCHANGED <<mode, systemTheme, themeRet, storage>>]_vars

\* The platform changed after the hook had unmounted: no listener, and the
\* state the instance left is not updated.
C15_Witness ==
    /\ phase = "unmounted"
    /\ themeOp = "platform"
    /\ listeners = 0
    /\ systemTheme # PlatformTheme

\* ---- Properties: DataTable, second part ----

\* The header last clicked, when one was.
Clicked == lastClick.index # 0
ClickedColumn == columns[lastClick.index]

\* C16: a sort request on a sortable column that is not the active one makes
\* it the active column with direction ascending, whatever the direction was.
C16_NewColumnSortsAscending ==
    (/\ Clicked
     /\ Truthy(ClickedColumn.sortable)
     /\ lastClick.column # ClickedColumn.id)
    => sortColumn = ClickedColumn.id /\ sortDirection = "asc"

\* name was sorted descending and the header of v was clicked.
C16_Witness ==
    /\ lastClick = [index |-> 2, column |-> "name", direction |-> "desc"]
    /\ Truthy(columns[2].sortable)
    /\ sortColumn = "v"
    /\ sortDirection = "asc"

\* C17: a sort request on the active column while the direction is ascending
\* makes the direction descending and leaves the column active.
C17_ActiveAscendingTurnsDescending ==
    (/\ Clicked
     /\ Truthy(ClickedColumn.sortable)
     /\ lastClick.column = ClickedColumn.id
     /\ lastClick.direction = "asc")
    => sortColumn = ClickedColumn.id /\ sortDirection = "desc"

\* v was sorted ascending and its header was clicked again.
C17_Witness ==
    /\ lastClick = [index |-> 2, column |-> "v", direction |-> "asc"]
    /\ sortColumn = "v"
    /\ sortDirection = "desc"

\* C18: a click on the header of a column whose sortable is false or absent
\* changes neither the sort state nor the displayed order.
C18_NonSortableClickIgnored ==
    [][(Clicked' /\ ~Truthy(ClickedColumn'.sortable))
           => UNCHANGED <<sortColumn, sortDirection, sortedData>>]_vars

\* v is sorted descending, which reorders the rows, and the header of name,
\* which declares no sortable, was clicked.
C18_Witness ==
    /\ lastClick = [index |-> 1, column |-> "v", direction |-> "desc"]
    /\ columns[1].sortable = undefined
    /\ sortColumn = "v"
    /\ sortDirection = "desc"
    /\ sortedData # data

\* Whether a sort is in force, and its column.
SortActive ==
    /\ ~Falsy(sortColumn)
    /\ sortDirection # Null
    /\ IsDefined(find(columns, sortColumn))
ActiveColumn == Get(find(columns, sortColumn))

Position(s, x) == CHOOSE i \in 1..Len(s) : s[i] = x

\* Rows that compare equal are displayed in their input order.
TiesInInputOrder ==
    \A i, j \in 1..Len(data) :
        (i < j /\ compare(ActiveColumn, sortDirection, data[i], data[j]) = 0)
        => Position(sortedData, data[i]) < Position(sortedData, data[j])

\* C19: under every active sort, rows that compare equal are displayed in
\* the order they have in the input.
C19_SortIsStable == SortActive => TiesInInputOrder

\* A column without sortFn whose values are all numbers.
NumericColumn(column) ==
    /\ column.sortFn = "none"
    /\ \A i \in 1..Len(data) : accessor(column, data[i]).t = "number"

Reverse(s) == [i \in 1..Len(s) |-> s[Len(s) + 1 - i]]

Raw(row) == accessor(ActiveColumn, row).n

\* C20, as the specification states it: on a numeric column the descending
\* display order is the exact reverse of the ascending display order.
C20_DescendingIsReverseOfAscending ==
    (SortActive /\ NumericColumn(ActiveColumn) /\ sortDirection = "desc")
    => \A ascending \in sortOutcomes(data, ActiveColumn, "asc") :
           sortedData = Reverse(ascending)

\* C20, amended: on a numeric column the ascending order is by raw value,
\* the descending order by raw value reversed, rows with equal values keep
\* their input order in both, and the descending order is the reverse of
\* the ascending one when no two rows have the same value.
C20_NumericOrder ==
    (SortActive /\ NumericColumn(ActiveColumn))
    => /\ Range(sortedData) = Range(data) /\ Len(sortedData) = Len(data)
       /\ \A i, j \in 1..Len(sortedData) :
              i < j => IF sortDirection = "asc"
                       THEN Raw(sortedData[i]) <= Raw(sortedData[j])
                       ELSE Raw(sortedData[i]) >= Raw(sortedData[j])
       /\ TiesInInputOrder
       /\ (/\ sortDirection = "desc"
           /\ \A i, j \in 1..Len(data) : Raw(data[i]) = Raw(data[j]) => i = j)
          => \A ascending \in sortOutcomes(data, ActiveColumn, "asc") :
                 sortedData = Reverse(ascending)

\* v is sorted descending over three rows of which two have the same value:
\* the display is not the reverse of the ascending display.
C20_Witness ==
    /\ sortColumn = "v"
    /\ sortDirection = "desc"
    /\ Len(data) = 3
    /\ \E i, j \in 1..3 : i # j /\ data[i].v = data[j].v
    /\ sortedData # Reverse(sort(data, columns[2], "asc"))

\* sortFn's verdict on two rows in the direction in force.
SortFnVerdict(a, b) ==
    IF sortDirection = "desc"
    THEN 0 - sortFn(ActiveColumn, a, b)
    ELSE sortFn(ActiveColumn, a, b)

\* C21: when the active column defines sortFn, the displayed order is the
\* one sortFn gives, negated when descending: the displayed rows are the
\* input rows, no row is displayed before a row sortFn puts before it, and
\* rows sortFn calls equal keep their input order. The accessor plays no part.
C21_SortFnAloneOrders ==
    (SortActive /\ ActiveColumn.sortFn # "none")
    => /\ Range(sortedData) = Range(data) /\ Len(sortedData) = Len(data)
       /\ \A i, j \in 1..Len(sortedData) :
              i < j => SortFnVerdict(sortedData[i], sortedData[j]) <= 0
       /\ \A i, j \in 1..Len(data) :
              (i < j /\ sortFn(ActiveColumn, data[i], data[j]) = 0)
              => Position(sortedData, data[i]) < Position(sortedData, data[j])

\* rank, whose accessor is the name and whose sortFn compares v, is sorted
\* descending over three rows, which reorders them.
C21_Witness ==
    /\ sortColumn = "rank"
    /\ sortDirection = "desc"
    /\ Len(data) = 3
    /\ sortedData # data

\* C22: when no sort is in force (no direction, or no active column) the
\* displayed rows are the input rows in the input order.
C22_UnsortedDisplaysInput ==
    (sortDirection = Null \/ Falsy(sortColumn)) => sortedData = data

\* A sort has been cleared by a third request, over three rows that are not
\* in the order of the first column.
C22_Witness ==
    /\ Unsorted
    /\ Clicked
    /\ lastClick.direction = "desc"
    /\ Len(data) = 3
    /\ sortedData = data
    /\ data # sort(data, columns[1], "asc")

\* C23: no step changes the caller's data array or the column definitions.
C23_InputsNeverMutated == [][UNCHANGED <<data, columns>>]_vars

\* A second request on one column has turned the display around, and the
\* display differs from the input.
C23_Witness ==
    /\ SortActive
    /\ sortRun.length = 2
    /\ Len(data) = 3
    /\ sortedData # data

\* A row with its absent values replaced by the empty string.
Absent(val) == val.t \in {"undefined", "null"}
Blank(row) ==
    [f \in DOMAIN row |->
        IF f = "id" THEN row[f] ELSE IF Absent(row[f]) THEN Str("") ELSE row[f]]
ById(s) == [i \in 1..Len(s) |-> s[i].id]

\* C24: under the default comparison, rows whose value in the active column
\* is undefined or null are displayed where they would be if the value were
\* the empty string.
C24_AbsentSortsAsEmpty ==
    (/\ SortActive
     /\ ActiveColumn.sortFn = "none"
     /\ \E i \in 1..Len(data) : Absent(accessor(ActiveColumn, data[i])))
    => ById(sortedData) \in
           { ById(p) : p \in sortOutcomes([i \in 1..Len(data) |-> Blank(data[i])],
                                          ActiveColumn, sortDirection) }

\* name is sorted ascending and the row without a name, last in the input,
\* is displayed first.
C24_Witness ==
    /\ sortColumn = "name"
    /\ sortDirection = "asc"
    /\ Len(data) = 3
    /\ data[3].name = Undef
    /\ sortedData[1] = data[3]

\* C29: the default comparator is transitive on the rows: if a orders before
\* b and b before c, then a orders before c.
C29_DefaultComparatorTransitive ==
    (SortActive /\ ActiveColumn.sortFn = "none")
    => \A a, b, c \in Range(data) :
           (/\ compare(ActiveColumn, sortDirection, a, b) < 0
            /\ compare(ActiveColumn, sortDirection, b, c) < 0)
           => compare(ActiveColumn, sortDirection, a, c) < 0

\* ---- Properties: usePanelCollapse, second part ----

\* C25: the isControlled a render computes is the one the first render of
\* the instance computed, whatever isExpanded the caller supplies later.
C25_IsControlledFixed == panelIsControlled = constructedControlled

\* C28: in uncontrolled mode, two toggle() calls made on one returned
\* callback within one event leave expanded as it was before the first.
C28_TwoTogglesRestore ==
    (panelOp = "toggleTwice" /\ ~panelIsControlled) => expanded = panelBefore

\* ---- Properties: NumberInput ----

\* C30: with min and max defined, a click on the increment or the decrement
\* button passes onChange no value below min or above max.
C30_StepControlsStayInRange ==
    [][(NumberInputIncrement \/ NumberInputDecrement)
           => (IsDefined(sliderArg') => InRange(Get(sliderArg')))]_vars

\* ---- Properties: Tooltip ----

\* C26: when the last enter, focus, leave or blur event handled was a leave
\* or a blur, the tooltip is not shown, whatever timers fire afterwards.
C26_HiddenAfterHide == tooltipEvent = "hide" => ~tooltipShown

\* ---- Properties: Modal ----

\* C27: while a mounted Modal has isOpen true, document.body's overflow is
\* 'hidden'.
C27_OpenModalLocksScroll ==
    (\E i \in ModalIds : modals[i].mounted /\ modals[i].isOpen)
    => overflow = "hidden"

====
